---- MODULE Spec2Model ----
(***************************************************************************)
(* Pulse smoke tests: the SmokeTestRunner (probes, report, alerting), the  *)
(* PulseAPIService facade, the SupabaseService fixture provider and the    *)
(* NotificationService, as one state machine.  Every awaited I/O call is   *)
(* two steps: the call is issued (it is in flight), then it settles and    *)
(* the code after the await runs up to the next await.                     *)
(***************************************************************************)
EXTENDS Integers, Sequences, FiniteSets, TLC

\* ------------------------------------------------------------------ bounds
\* How many collaborator outcomes of one run may differ from the nominal one
\* (a nominal call answers successfully, with data, in 0 ms).
MaxDeviations == 1
\* Longest list of rows the fixture provider returns in the model.
MaxFixtures == 2
\* Time to live of a fixture row that is still valid (ms after the query).
FixtureTtl == 3600000
\* Longest result list handed to the aggregator on its own.
MaxResults == 3
\* How many times runAllTests is invoked on one runner.
MaxInvocations == 2

\* ------------------------------------------------------- program constants
QueryCacheExpectedMs == 500
RagCacheExpectedMs == 1000
RagVectorExpectedMs == 3000

VARIABLES
  pc,          \* where runAllTests is (which await it is suspended on)
  results,     \* SmokeTestRunner.results
  now,         \* Date.now()
  startTime,   \* the running probe's startTime
  idx,         \* loop position inside testAllStrategies / testPerformance
  calls,       \* every I/O call issued so far, with its outcome once settled
  inflight,    \* indices into calls of the calls not settled yet
  report,      \* the value of generateReport(), once computed
  alerts,      \* which notificationService alert methods were invoked
  slack,       \* the Slack delivery of the current alert
  discord,     \* the Discord delivery of the current alert
  posts,       \* webhook posts issued, in order
  config,      \* the parsed environment (config/index.ts)
  exitCode,    \* process.exit's argument, once main has called it
  invocations, \* how many times runAllTests was invoked on the runner
  reports,     \* every value generateReport has returned, in order
  deviations   \* non-nominal collaborator outcomes so far (see MaxDeviations)

vars == <<pc, results, now, startTime, idx, calls, inflight, report, alerts,
          slack, discord, posts, config, exitCode, invocations, reports,
          deviations>>

\* ------------------------------------------------------------ error values
\* A TestResult.error / SearchResponse.error: undefined, or a message.  The
\* performance message interpolates two numbers, kept as fields.
NoError == [defined |-> FALSE, msg |-> "", actual |-> 0, expected |-> 0]

ErrorMsg(m) == [defined |-> TRUE, msg |-> m, actual |-> 0, expected |-> 0]

\* JavaScript truthiness of an optional string.
Truthy(e) == e.defined /\ e.msg # ""

\* data is a list of opaque items: only its length is kept; NoData is a body
\* without a data field.
NoData == -1


\* ------------------------------------------------------------------ config
\* config/index.ts: the two webhook URLs are optional, the two enable flags
\* default to false; the test location has defaults.
ConfigChoices ==
  [ ENABLE_SLACK_NOTIFICATIONS : BOOLEAN, SLACK_WEBHOOK_URL : BOOLEAN,
    ENABLE_DISCORD_NOTIFICATIONS : BOOLEAN, DISCORD_WEBHOOK_URL : BOOLEAN,
    TEST_AREA : {"tampa-bay"}, TEST_REGION : {"FL"},
    TEST_COUNTRY : {"US"}, TEST_TIMELINE : {"today"} ]

\* The configurations a run is checked under: each channel either fully
\* configured (enabled, URL set) or left at its defaults (disabled, no URL).
RunConfigs ==
  { c \in ConfigChoices :
      /\ c.ENABLE_SLACK_NOTIFICATIONS = c.SLACK_WEBHOOK_URL
      /\ c.ENABLE_DISCORD_NOTIFICATIONS = c.DISCORD_WEBHOOK_URL }

\* ------------------------------------------------- PulseAPIService (facade)
SearchResponse(success, dataLen, error, strategy, total_ms) ==
  [ success |-> success, dataLen |-> dataLen, error |-> error,
    source |-> strategy, strategy |-> strategy, total_ms |-> total_ms ]

NoResponse == SearchResponse(FALSE, NoData, NoError, "", 0)

\* What the HTTP client does with one request: a 2xx answer with a body, an
\* Axios error (no answer at all, a timeout, or a non-2xx answer whose body
\* may carry an error), or some other exception.
Http2xx(status, body) ==
  [ kind |-> "2xx", status |-> status, body |-> body,
    serverError |-> NoError, message |-> "" ]

HttpAxiosError(serverError, message) ==
  [ kind |-> "axios", status |-> 0, body |-> NoResponse,
    serverError |-> serverError, message |-> message ]

HttpException(message) ==
  [ kind |-> "exception", status |-> 0, body |-> NoResponse,
    serverError |-> NoError, message |-> message ]

\* The answer of a healthy server to POST /api/search/{strategy}.
NominalPost(strategy) ==
  Http2xx(200, SearchResponse(TRUE, 1, NoError, strategy, 42))

PostOutcomes(strategy) ==
  { NominalPost(strategy),
    Http2xx(200, SearchResponse(TRUE, 0, NoError, strategy, 42)),
    Http2xx(200, SearchResponse(TRUE, NoData, NoError, strategy, 42)),
    Http2xx(200, SearchResponse(FALSE, 0, ErrorMsg("strategy failed"), strategy, 42)),
    Http2xx(200, SearchResponse(FALSE, 0, NoError, strategy, 42)),
    HttpAxiosError(ErrorMsg("upstream unavailable"),
                   "Request failed with status code 503"),
    HttpAxiosError(NoError, "timeout of 30000ms exceeded"),
    HttpException("request could not be built") }

\* A promise's settlement: it resolves with value, or rejects with message.
Resolved(v) == [ threw |-> FALSE, message |-> "", value |-> v ]

Rejected(m, v) == [ threw |-> TRUE, message |-> m, value |-> v ]

\* Mutant of searchWithStrategy: the normalised failure takes its error from
\* the server's body only, without falling back to the Axios message.
searchWithStrategy_serverErrorOnly(strategy, http, tick) ==
  IF http.kind = "2xx" THEN Resolved(http.body)
  ELSE IF http.kind = "axios"
    THEN Resolved([ success |-> FALSE, dataLen |-> 0,
                    source |-> strategy, strategy |-> strategy,
                    error |-> http.serverError,
                    total_ms |-> 0 - tick ])
    ELSE Rejected(http.message, NoResponse)

\* searchWithStrategy: the body verbatim on 2xx; a normalised failure on an
\* Axios error, whose total_ms is Date.now() - Date.now() (tick is how far
\* the clock moved between the two reads); any other error is rethrown.
searchWithStrategy(strategy, http, tick) ==
  IF http.kind = "2xx" THEN Resolved(http.body)
  ELSE IF http.kind = "axios"
    THEN Resolved([ success |-> FALSE, dataLen |-> 0,
                    source |-> strategy, strategy |-> strategy,
                    error |-> IF Truthy(http.serverError)
                                THEN http.serverError
                                ELSE ErrorMsg(http.message),
                    total_ms |-> 0 - tick ])
    ELSE Rejected(http.message, NoResponse)

\* testQueryCache, testRagCache, ...: the strategy each wrapper passes on.
StrategyOfMethod(method) ==
  CASE method = "testQueryCache" -> "query_cache"
    [] method = "testRagVector" -> "rag_vector"
    [] method = "testRagCache" -> "rag_cache"
    [] method = "testRagHybrid" -> "rag_hybrid"
    [] method = "testWebSearchLLM" -> "web_search_llm"
    [] method = "testCombined" -> "combined"

\* GET /health answers.
NominalGet == Http2xx(200, NoResponse)

GetOutcomes ==
  { NominalGet, Http2xx(204, NoResponse),
    HttpAxiosError(NoError, "timeout of 5000ms exceeded") }

\* Every way GET /health can go: 200, another 2xx status, an Axios error (a
\* timeout, no connection, a non-2xx status), or some other exception.
HealthOutcomes ==
  GetOutcomes \cup
    { HttpAxiosError(NoError, "connect ECONNREFUSED"),
      HttpAxiosError(NoError, "Request failed with status code 503"),
      HttpException("request could not be built") }

\* Mutant of healthCheck: an error that is not an Axios error is rethrown.
healthCheck_rethrows(http) ==
  IF http.kind = "2xx" THEN Resolved(http.status = 200)
  ELSE IF http.kind = "axios" THEN Resolved(FALSE)
  ELSE Rejected(http.message, FALSE)

\* healthCheck: true on status 200, false on any error; it never throws.
healthCheck(http) ==
  IF http.kind = "2xx" THEN Resolved(http.status = 200) ELSE Resolved(FALSE)

\* --------------------------------------- SupabaseService (fixture provider)
\* A query_cache row; response.data is kept as its length.
CacheRow(dataLen, expire_at) ==
  [ prompt |-> "restaurants near me", area |-> "tampa-bay", region |-> "FL",
    country |-> "US", timeline |-> "today",
    dataLen |-> dataLen, expire_at |-> expire_at ]

NoRow == CacheRow(NoData, 0)

\* The rows the store can hold that pass .gte('expire_at', t): one that is
\* valid for long, one without data, and one expiring exactly at t.
RowsAt(t) ==
  { CacheRow(1, t + FixtureTtl), CacheRow(0, t + FixtureTtl), CacheRow(1, t) }

SeqsUpTo(S, n) == UNION { [1..k -> S] : k \in 0..n }

Min(a, b) == IF a <= b THEN a ELSE b

\* The { data, error } a query_cache select issued at time t resolves with.
DbResult(rows, error) == [ rows |-> rows, error |-> error ]

NominalDb(t) == DbResult(<< CacheRow(1, t + FixtureTtl) >>, NoError)

DbOutcomes(t, limit) ==
  { DbResult(rows, NoError) : rows \in SeqsUpTo(RowsAt(t), Min(limit, MaxFixtures)) }
    \cup { DbResult(<<>>, ErrorMsg("connection refused")) }

\* getRecentCacheEntry: throws the store's error, null when no row matched,
\* the first row otherwise.
getRecentCacheEntry(db) ==
  IF db.error.defined THEN Rejected(db.error.msg, NoRow)
  ELSE IF Len(db.rows) = 0 THEN Resolved([ isNull |-> TRUE, row |-> NoRow ])
  ELSE Resolved([ isNull |-> FALSE, row |-> db.rows[1] ])

\* getCacheEntriesByPrompt: throws the store's error, the rows otherwise.
getCacheEntriesByPrompt(db) ==
  IF db.error.defined THEN Rejected(db.error.msg, <<>>) ELSE Resolved(db.rows)

\* ------------------------------------------------------------- the runner
TestResult(testName, success, duration, error) ==
  [ testName |-> testName, success |-> success, duration |-> duration,
    error |-> error ]

\* The SearchRequest a probe sends.
SearchRequest(query, area, region, country, timeline) ==
  [ query |-> query, area |-> area, region |-> region, country |-> country,
    timeline |-> timeline, enableFallbacks |-> FALSE ]

NoRequest == SearchRequest("", "", "", "", "")

NoOutcome == [ settled |-> FALSE ]

\* One issued I/O call: who issued it, what it asked, the clock and the
\* number of recorded results when it was issued, and how it settled.
Call(probe, op, strategy, request) ==
  [ probe |-> probe, op |-> op, strategy |-> strategy, request |-> request,
    at |-> now, nres |-> Len(results), out |-> NoOutcome ]

Issue(c) ==
  /\ calls' = Append(calls, c)
  /\ inflight' = inflight \cup { Len(calls) + 1 }

\* A settled call: what the network or the store did (raw), whether the
\* service method threw, the value it returned, and the clock then.
Settled(raw, r, t) ==
  [ settled |-> TRUE, raw |-> raw, threw |-> r.threw, value |-> r.value,
    at |-> t ]

Settle(i, raw, r) ==
  /\ calls' = [ calls EXCEPT ![i].out = Settled(raw, r, now') ]
  /\ inflight' = inflight \ { i }

\* How long an awaited call may take: no time, or 1 ms.
Latencies == { 0, 1 }

\* ... and around the SLA of a performance probe.
LatenciesAround(expectedMs) == { 0, expectedMs, expectedMs + 1 }

\* What one settlement takes from the run's allowance of deviations.
Cost(isNominal, elapsed, tick) ==
  (IF isNominal THEN 0 ELSE 1) + (IF elapsed = 0 THEN 0 ELSE 1) + tick

Afford(cost) ==
  /\ deviations + cost <= MaxDeviations
  /\ deviations' = deviations + cost

\* Mutant of AfterProbe: the sweep is run again after the performance probe.
AfterProbe_again(probe) ==
  CASE probe = "testAPIHealth" -> "testSupabaseConnection"
    [] probe = "testSupabaseConnection" -> "testQueryCacheStrategy"
    [] probe = "testQueryCacheStrategy" -> "testRagVectorStrategy"
    [] probe = "testRagVectorStrategy" -> "testAllStrategies"
    [] probe = "testAllStrategies" -> "testPerformance"
    [] probe = "testPerformance" -> "testAllStrategies"

\* Mutant of AfterProbe: the two functional probes swapped.
AfterProbe_swapped(probe) ==
  CASE probe = "testAPIHealth" -> "testSupabaseConnection"
    [] probe = "testSupabaseConnection" -> "testRagVectorStrategy"
    [] probe = "testRagVectorStrategy" -> "testQueryCacheStrategy"
    [] probe = "testQueryCacheStrategy" -> "testAllStrategies"
    [] probe = "testAllStrategies" -> "testPerformance"
    [] probe = "testPerformance" -> "generateReport"

\* runAllTests: the probe awaited after each probe.
AfterProbe(probe) ==
  CASE probe = "testAPIHealth" -> "testSupabaseConnection"
    [] probe = "testSupabaseConnection" -> "testQueryCacheStrategy"
    [] probe = "testQueryCacheStrategy" -> "testRagVectorStrategy"
    [] probe = "testRagVectorStrategy" -> "testAllStrategies"
    [] probe = "testAllStrategies" -> "testPerformance"
    [] probe = "testPerformance" -> "generateReport"

\* Mutant of CaughtResult: the catch block records the result as passed.
CaughtResult_passed(testName, duration, r) ==
  TestResult(testName, TRUE, duration, ErrorMsg(r.message))

\* A probe's catch block: a failed result carrying
\* error instanceof Error ? error.message : 'Unknown error'.
CaughtResult(testName, duration, r) ==
  TestResult(testName, FALSE, duration, ErrorMsg(r.message))

Init ==
  /\ pc = "testAPIHealth"
  /\ results = <<>>
  /\ now = 0
  /\ startTime = 0
  /\ idx = 1
  /\ calls = <<>>
  /\ inflight = {}
  /\ report = [ produced |-> FALSE ]
  /\ alerts = {}
  /\ slack = "idle"
  /\ discord = "idle"
  /\ posts = <<>>
  /\ config \in RunConfigs
  /\ exitCode = <<>>
  /\ invocations = 1
  /\ reports = <<>>
  /\ deviations = 0

notifyVars == <<report, alerts, slack, discord, posts, config, exitCode,
                invocations, reports>>

\* testAPIHealth up to its await.
testAPIHealth_call ==
  /\ pc = "testAPIHealth"
  /\ startTime' = now
  /\ Issue(Call("testAPIHealth", "healthCheck", "", NoRequest))
  /\ pc' = "testAPIHealth_await"
  /\ UNCHANGED <<results, now, idx, deviations>>
  /\ UNCHANGED notifyVars

\* testAPIHealth from the await on.
testAPIHealth_resume ==
  /\ pc = "testAPIHealth_await"
  /\ \E i \in inflight, http \in GetOutcomes, d \in Latencies :
       /\ calls[i].op = "healthCheck"
       /\ Afford(Cost(http = NominalGet, d, 0))
       /\ now' = now + d
       /\ LET r == healthCheck(http)
              isHealthy == r.value
          IN /\ Settle(i, http, r)
             /\ results' = Append(results,
                  IF r.threw
                    THEN CaughtResult("API Health Check", now' - startTime, r)
                    ELSE TestResult("API Health Check", isHealthy,
                                    now' - startTime,
                                    IF isHealthy THEN NoError
                                    ELSE ErrorMsg("API is not healthy")))
  /\ pc' = AfterProbe("testAPIHealth")
  /\ UNCHANGED <<startTime, idx>>
  /\ UNCHANGED notifyVars

\* testSupabaseConnection up to its await.
testSupabaseConnection_call ==
  /\ pc = "testSupabaseConnection"
  /\ startTime' = now
  /\ Issue(Call("testSupabaseConnection", "getRecentCacheEntry", "", NoRequest))
  /\ pc' = "testSupabaseConnection_await"
  /\ UNCHANGED <<results, now, idx, deviations>>
  /\ UNCHANGED notifyVars

\* testSupabaseConnection from the await on.
testSupabaseConnection_resume ==
  /\ pc = "testSupabaseConnection_await"
  /\ \E i \in inflight, d \in Latencies :
     \E db \in DbOutcomes(calls[i].at, 1) :
       /\ calls[i].op = "getRecentCacheEntry"
       /\ Afford(Cost(db = NominalDb(calls[i].at), d, 0))
       /\ now' = now + d
       /\ LET r == getRecentCacheEntry(db)
          IN /\ Settle(i, db, r)
             /\ results' = Append(results,
                  IF r.threw
                    THEN CaughtResult("Supabase Connection", now' - startTime, r)
                    ELSE TestResult("Supabase Connection", ~r.value.isNull,
                                    now' - startTime, NoError))
  /\ pc' = AfterProbe("testSupabaseConnection")
  /\ UNCHANGED <<startTime, idx>>
  /\ UNCHANGED notifyVars

\* How far the clock can move between the two Date.now() reads of the
\* facade's normalised failure; no other outcome reads the clock twice.
Ticks(http) == IF http.kind = "axios" THEN { 0, 1 } ELSE { 0 }

\* Mutant of FindValidEntry: the first unexpired entry, with data or not.
FindValidEntry_anyData(rows, t) ==
  LET ok == { k \in 1..Len(rows) : rows[k].expire_at > t }
  IN IF ok = {} THEN 0 ELSE CHOOSE k \in ok : \A j \in ok : k <= j

\* cacheEntries.find(entry => entry.response?.data?.length > 0 &&
\*   new Date(entry.expire_at) > new Date()): the position found, 0 if none.
FindValidEntry(rows, t) ==
  LET ok == { k \in 1..Len(rows) : rows[k].dataLen > 0 /\ rows[k].expire_at > t }
  IN IF ok = {} THEN 0 ELSE CHOOSE k \in ok : \A j \in ok : k <= j

\* Reading response.data.length of a body without data throws a TypeError.
LengthTypeError == ErrorMsg("Cannot read properties of undefined (reading 'length')")

\* testQueryCacheStrategy up to its first await.
testQueryCacheStrategy_call ==
  /\ pc = "testQueryCacheStrategy"
  /\ startTime' = now
  /\ Issue(Call("testQueryCacheStrategy", "getCacheEntriesByPrompt", "", NoRequest))
  /\ pc' = "testQueryCacheStrategy_fixture"
  /\ UNCHANGED <<results, now, idx, deviations>>
  /\ UNCHANGED notifyVars

\* testQueryCacheStrategy from the fixture query to the facade call (or to
\* its end when the query throws or no entry is valid).
testQueryCacheStrategy_fixture ==
  /\ pc = "testQueryCacheStrategy_fixture"
  /\ \E i \in inflight, d \in Latencies :
     \E db \in DbOutcomes(calls[i].at, 5) :
       /\ calls[i].op = "getCacheEntriesByPrompt"
       /\ Afford(Cost(db = NominalDb(calls[i].at), d, 0))
       /\ now' = now + d
       /\ LET r == getCacheEntriesByPrompt(db)
              settled == [ calls EXCEPT ![i].out = Settled(db, r, now') ]
              k == FindValidEntry(r.value, now')
          IN IF r.threw
               THEN /\ calls' = settled
                    /\ inflight' = inflight \ { i }
                    /\ results' = Append(results,
                         CaughtResult("Query Cache Strategy", now' - startTime, r))
                    /\ pc' = AfterProbe("testQueryCacheStrategy")
             ELSE IF k = 0
               THEN /\ calls' = settled
                    /\ inflight' = inflight \ { i }
                    /\ results' = Append(results,
                         TestResult("Query Cache Strategy", FALSE,
                                    now' - startTime,
                                    ErrorMsg("No valid cache entries found for testing")))
                    /\ pc' = AfterProbe("testQueryCacheStrategy")
               ELSE LET e == r.value[k]
                        c == [ probe |-> "testQueryCacheStrategy",
                               op |-> "testQueryCache",
                               strategy |-> StrategyOfMethod("testQueryCache"),
                               request |-> SearchRequest(e.prompt, e.area, e.region,
                                                         e.country, e.timeline),
                               at |-> now', nres |-> Len(results),
                               out |-> NoOutcome ]
                    IN /\ calls' = Append(settled, c)
                       /\ inflight' = (inflight \ { i }) \cup { Len(calls) + 1 }
                       /\ results' = results
                       /\ pc' = "testQueryCacheStrategy_await"
  /\ UNCHANGED <<startTime, idx>>
  /\ UNCHANGED notifyVars

\* testQueryCacheStrategy from the facade call on.
testQueryCacheStrategy_resume ==
  /\ pc = "testQueryCacheStrategy_await"
  /\ \E i \in inflight, d \in Latencies :
     \E http \in PostOutcomes(calls[i].strategy) : \E tick \in Ticks(http) :
       /\ calls[i].op = "testQueryCache"
       /\ Afford(Cost(http = NominalPost(calls[i].strategy), d, tick))
       /\ now' = now + d + tick
       /\ LET r == searchWithStrategy(calls[i].strategy, http, tick)
              response == r.value
          IN /\ Settle(i, http, r)
             /\ results' = Append(results,
                  IF r.threw
                    THEN CaughtResult("Query Cache Strategy", now' - startTime, r)
                  ELSE IF response.dataLen = NoData
                    THEN TestResult("Query Cache Strategy", FALSE,
                                    now' - startTime, LengthTypeError)
                    ELSE TestResult("Query Cache Strategy", response.success,
                                    now' - startTime, response.error))
  /\ pc' = AfterProbe("testQueryCacheStrategy")
  /\ UNCHANGED <<startTime, idx>>
  /\ UNCHANGED notifyVars

\* Mutant of OrElse: no fallback.
OrElse_first(a, b) == a

\* a || b on optional strings.
OrElse(a, b) == IF a = "" THEN b ELSE a

\* testRagVectorStrategy up to its first await.
testRagVectorStrategy_call ==
  /\ pc = "testRagVectorStrategy"
  /\ startTime' = now
  /\ Issue(Call("testRagVectorStrategy", "getRecentCacheEntry", "", NoRequest))
  /\ pc' = "testRagVectorStrategy_fixture"
  /\ UNCHANGED <<results, now, idx, deviations>>
  /\ UNCHANGED notifyVars

\* testRagVectorStrategy from the fixture query to the facade call (or to
\* its end when the query throws).
testRagVectorStrategy_fixture ==
  /\ pc = "testRagVectorStrategy_fixture"
  /\ \E i \in inflight, d \in Latencies :
     \E db \in DbOutcomes(calls[i].at, 1) :
       /\ calls[i].op = "getRecentCacheEntry"
       /\ Afford(Cost(db = NominalDb(calls[i].at), d, 0))
       /\ now' = now + d
       /\ LET r == getRecentCacheEntry(db)
              settled == [ calls EXCEPT ![i].out = Settled(db, r, now') ]
          IN IF r.threw
               THEN /\ calls' = settled
                    /\ inflight' = inflight \ { i }
                    /\ results' = Append(results,
                         CaughtResult("RAG Vector Strategy", now' - startTime, r))
                    /\ pc' = AfterProbe("testRagVectorStrategy")
               ELSE LET e == IF r.value.isNull
                               THEN [ prompt |-> "", area |-> "", region |-> "",
                                      country |-> "", timeline |-> "" ]
                               ELSE r.value.row
                        c == [ probe |-> "testRagVectorStrategy",
                               op |-> "testRagVector",
                               strategy |-> StrategyOfMethod("testRagVector"),
                               request |->
                                 SearchRequest(OrElse(e.prompt, "pizza deals today"),
                                               OrElse(e.area, config.TEST_AREA),
                                               OrElse(e.region, config.TEST_REGION),
                                               OrElse(e.country, config.TEST_COUNTRY),
                                               OrElse(e.timeline, config.TEST_TIMELINE)),
                               at |-> now', nres |-> Len(results),
                               out |-> NoOutcome ]
                    IN /\ calls' = Append(settled, c)
                       /\ inflight' = (inflight \ { i }) \cup { Len(calls) + 1 }
                       /\ results' = results
                       /\ pc' = "testRagVectorStrategy_await"
  /\ UNCHANGED <<startTime, idx>>
  /\ UNCHANGED notifyVars

\* response.error || (response.data.length === 0 ? 'No data returned' : undefined)
RagVectorError(response) ==
  IF Truthy(response.error) THEN response.error
  ELSE IF response.dataLen = 0 THEN ErrorMsg("No data returned") ELSE NoError

\* The TestResult testRagVectorStrategy records for a facade response.
RagVectorResult(response, duration) ==
  TestResult("RAG Vector Strategy", response.success, duration,
             RagVectorError(response))

\* testRagVectorStrategy from the facade call on.
testRagVectorStrategy_resume ==
  /\ pc = "testRagVectorStrategy_await"
  /\ \E i \in inflight, d \in Latencies :
     \E http \in PostOutcomes(calls[i].strategy) : \E tick \in Ticks(http) :
       /\ calls[i].op = "testRagVector"
       /\ Afford(Cost(http = NominalPost(calls[i].strategy), d, tick))
       /\ now' = now + d + tick
       /\ LET r == searchWithStrategy(calls[i].strategy, http, tick)
              response == r.value
          IN /\ Settle(i, http, r)
             /\ results' = Append(results,
                  IF r.threw
                    THEN CaughtResult("RAG Vector Strategy", now' - startTime, r)
                  ELSE IF response.dataLen = NoData
                    THEN TestResult("RAG Vector Strategy", FALSE,
                                    now' - startTime, LengthTypeError)
                    ELSE RagVectorResult(response, now' - startTime))
  /\ pc' = AfterProbe("testRagVectorStrategy")
  /\ UNCHANGED <<startTime, idx>>
  /\ UNCHANGED notifyVars

\* Mutant of strategies: the sweep without its last strategy.
strategies_three ==
  << [ name |-> "Query Cache", method |-> "testQueryCache" ],
     [ name |-> "RAG Cache", method |-> "testRagCache" ],
     [ name |-> "RAG Hybrid", method |-> "testRagHybrid" ] >>

\* testAllStrategies: the strategies it sweeps, in order.
strategies ==
  << [ name |-> "Query Cache", method |-> "testQueryCache" ],
     [ name |-> "RAG Cache", method |-> "testRagCache" ],
     [ name |-> "RAG Hybrid", method |-> "testRagHybrid" ],
     [ name |-> "Web Search LLM", method |-> "testWebSearchLLM" ] >>

\* testAllStrategies: one loop iteration up to its await.
testAllStrategies_call ==
  /\ pc = "testAllStrategies"
  /\ startTime' = now
  /\ Issue(Call("testAllStrategies", strategies[idx].method,
                StrategyOfMethod(strategies[idx].method),
                SearchRequest("restaurants near me", config.TEST_AREA,
                              config.TEST_REGION, "", "")))
  /\ pc' = "testAllStrategies_await"
  /\ UNCHANGED <<results, now, idx, deviations>>
  /\ UNCHANGED notifyVars

\* Mutant of StrategyResult: a response without items counts as failed.
StrategyResult_needsData(name, response, duration) ==
  TestResult(name \o " Strategy", response.success /\ response.dataLen > 0,
             duration, response.error)

\* The TestResult testAllStrategies records for a facade response.
StrategyResult(name, response, duration) ==
  TestResult(name \o " Strategy", response.success, duration, response.error)

\* testAllStrategies: one loop iteration from its await on.
testAllStrategies_resume ==
  /\ pc = "testAllStrategies_await"
  /\ \E i \in inflight, d \in Latencies :
     \E http \in PostOutcomes(calls[i].strategy) : \E tick \in Ticks(http) :
       /\ calls[i].probe = "testAllStrategies"
       /\ Afford(Cost(http = NominalPost(calls[i].strategy), d, tick))
       /\ now' = now + d + tick
       /\ LET r == searchWithStrategy(calls[i].strategy, http, tick)
          IN /\ Settle(i, http, r)
             /\ results' = Append(results,
                  IF r.threw
                    THEN CaughtResult(strategies[idx].name \o " Strategy", now' - startTime, r)
                    ELSE StrategyResult(strategies[idx].name, r.value,
                                        now' - startTime))
  /\ idx' = IF idx < Len(strategies) THEN idx + 1 ELSE 1
  /\ pc' = IF idx < Len(strategies)
             THEN "testAllStrategies" ELSE AfterProbe("testAllStrategies")
  /\ UNCHANGED startTime
  /\ UNCHANGED notifyVars

\* testPerformance: the SLA of each strategy it times, in order.
performanceTests ==
  << [ strategy |-> "query_cache", expectedMs |-> QueryCacheExpectedMs ],
     [ strategy |-> "rag_cache", expectedMs |-> RagCacheExpectedMs ],
     [ strategy |-> "rag_vector", expectedMs |-> RagVectorExpectedMs ] >>

\* testPerformance: one loop iteration up to its await.
testPerformance_call ==
  /\ pc = "testPerformance"
  /\ startTime' = now
  /\ Issue(Call("testPerformance", "searchWithStrategy",
                performanceTests[idx].strategy,
                SearchRequest("test performance", config.TEST_AREA, "", "", "")))
  /\ pc' = "testPerformance_await"
  /\ UNCHANGED <<results, now, idx, deviations>>
  /\ UNCHANGED notifyVars

\* Mutant of WithinExpected: the threshold is exclusive.
WithinExpected_strict(duration, expectedMs) == duration < expectedMs

\* duration <= test.expectedMs
WithinExpected(duration, expectedMs) == duration <= expectedMs

\* `Exceeded expected time: ${duration}ms > ${test.expectedMs}ms`
ExceededError(duration, expectedMs) ==
  [ defined |-> TRUE, msg |-> "Exceeded expected time",
    actual |-> duration, expected |-> expectedMs ]

\* Mutant of PerformanceResult: the time the response reports about itself
\* is compared with the SLA and recorded.
PerformanceResult_bodyTiming(test, response, duration) ==
  TestResult(test.strategy \o " Performance",
             response.success /\ WithinExpected(response.total_ms, test.expectedMs),
             response.total_ms,
             IF WithinExpected(response.total_ms, test.expectedMs) THEN NoError
             ELSE ExceededError(response.total_ms, test.expectedMs))

\* The TestResult testPerformance records for a facade response.
PerformanceResult(test, response, duration) ==
  TestResult(test.strategy \o " Performance",
             response.success /\ WithinExpected(duration, test.expectedMs),
             duration,
             IF WithinExpected(duration, test.expectedMs) THEN NoError
             ELSE ExceededError(duration, test.expectedMs))

\* testPerformance: one loop iteration from its await on.
testPerformance_resume ==
  /\ pc = "testPerformance_await"
  /\ \E i \in inflight :
     \E d \in LatenciesAround(performanceTests[idx].expectedMs) :
     \E http \in PostOutcomes(calls[i].strategy) : \E tick \in Ticks(http) :
       /\ calls[i].probe = "testPerformance"
       /\ Afford(Cost(http = NominalPost(calls[i].strategy), d, tick))
       /\ now' = now + d + tick
       /\ LET r == searchWithStrategy(calls[i].strategy, http, tick)
          IN /\ Settle(i, http, r)
             /\ results' = Append(results,
                  IF r.threw
                    THEN CaughtResult(performanceTests[idx].strategy \o " Performance", now' - startTime, r)
                    ELSE PerformanceResult(performanceTests[idx], r.value,
                                           now' - startTime))
  /\ idx' = IF idx < Len(performanceTests) THEN idx + 1 ELSE 1
  /\ pc' = IF idx < Len(performanceTests)
             THEN "testPerformance" ELSE AfterProbe("testPerformance")
  /\ UNCHANGED startTime
  /\ UNCHANGED notifyVars

\* ------------------------------------------------------------- the report
\* (passedTests / totalTests * 100).toFixed(2): NaN for 0 / 0, else the
\* percentage rounded to hundredths (kept as a whole number of hundredths).
SuccessRate(passedTests, totalTests) ==
  IF totalTests = 0
    THEN [ isNaN |-> TRUE, hundredths |-> 0 ]
    ELSE [ isNaN |-> FALSE,
           hundredths |-> (2 * 10000 * passedTests + totalTests)
                            \div (2 * totalTests) ]

RECURSIVE SumDurations(_)
SumDurations(rs) ==
  IF rs = <<>> THEN 0 ELSE rs[1].duration + SumDurations(Tail(rs))

Passed(r) == r.success

Failed(r) == ~r.success

\* Mutant of generateReport: the failures are listed last one first.
generateReport_failuresReversed(rs, t) ==
  LET totalTests == Len(rs)
      passedTests == Len(SelectSeq(rs, Passed))
      failedTests == totalTests - passedTests
      failures == SelectSeq(rs, Failed)
  IN [ produced |-> TRUE,
       timestamp |-> t,
       totalTests |-> totalTests,
       passedTests |-> passedTests,
       failedTests |-> failedTests,
       hasFailures |-> failedTests > 0,
       successRate |-> SuccessRate(passedTests, totalTests),
       totalDuration |-> SumDurations(rs),
       results |-> rs,
       failures |-> [ k \in 1..Len(failures) |->
                        failures[Len(failures) + 1 - k] ] ]

\* Mutant of generateReport: the total duration is the time on the clock.
generateReport_clockDuration(rs, t) ==
  LET totalTests == Len(rs)
      passedTests == Len(SelectSeq(rs, Passed))
      failedTests == totalTests - passedTests
  IN [ produced |-> TRUE,
       timestamp |-> t,
       totalTests |-> totalTests,
       passedTests |-> passedTests,
       failedTests |-> failedTests,
       hasFailures |-> failedTests > 0,
       successRate |-> SuccessRate(passedTests, totalTests),
       totalDuration |-> t,
       results |-> rs,
       failures |-> SelectSeq(rs, Failed) ]

\* Mutant of generateReport: failed results are counted by their error field.
generateReport_failedByError(rs, t) ==
  LET totalTests == Len(rs)
      passedTests == Len(SelectSeq(rs, Passed))
      failedTests == Len(SelectSeq(rs, LAMBDA r : r.error.defined))
  IN [ produced |-> TRUE,
       timestamp |-> t,
       totalTests |-> totalTests,
       passedTests |-> passedTests,
       failedTests |-> failedTests,
       hasFailures |-> failedTests > 0,
       successRate |-> SuccessRate(passedTests, totalTests),
       totalDuration |-> SumDurations(rs),
       results |-> rs,
       failures |-> SelectSeq(rs, Failed) ]

\* generateReport on the result list rs at time t.
generateReport(rs, t) ==
  LET totalTests == Len(rs)
      passedTests == Len(SelectSeq(rs, Passed))
      failedTests == totalTests - passedTests
  IN [ produced |-> TRUE,
       timestamp |-> t,
       totalTests |-> totalTests,
       passedTests |-> passedTests,
       failedTests |-> failedTests,
       hasFailures |-> failedTests > 0,
       successRate |-> SuccessRate(passedTests, totalTests),
       totalDuration |-> SumDurations(rs),
       results |-> rs,
       failures |-> SelectSeq(rs, Failed) ]

\* --------------------------------------------------- NotificationService
\* Mutant of SlackStarts: the enable flag is not looked at.
SlackStarts_urlOnly == config.SLACK_WEBHOOK_URL

\* sendSlackNotification up to its await: nothing is posted unless the
\* channel is enabled and its webhook URL is set.
SlackStarts == config.ENABLE_SLACK_NOTIFICATIONS /\ config.SLACK_WEBHOOK_URL

\* sendDiscordNotification up to its await.
DiscordStarts == config.ENABLE_DISCORD_NOTIFICATIONS /\ config.DISCORD_WEBHOOK_URL

\* Mutant of StartDeliveries: Discord is only the fallback of Slack.
StartDeliveries_fallback(kind) ==
  /\ alerts' = alerts \cup { kind }
  /\ slack' = IF SlackStarts THEN "posting" ELSE "skipped"
  /\ discord' = IF DiscordStarts /\ ~SlackStarts THEN "posting" ELSE "skipped"
  /\ posts' = posts \o (IF SlackStarts THEN << "slack" >> ELSE <<>>)
                    \o (IF DiscordStarts /\ ~SlackStarts
                          THEN << "discord" >> ELSE <<>>)

\* Promise.all([sendSlackNotification(..), sendDiscordNotification(..)]) up
\* to its await: both deliveries are started, Slack first.
StartDeliveries(kind) ==
  /\ alerts' = alerts \cup { kind }
  /\ slack' = IF SlackStarts THEN "posting" ELSE "skipped"
  /\ discord' = IF DiscordStarts THEN "posting" ELSE "skipped"
  /\ posts' = posts \o (IF SlackStarts THEN << "slack" >> ELSE <<>>)
                    \o (IF DiscordStarts THEN << "discord" >> ELSE <<>>)

\* Mutant of ShouldAlert: the alert is sent for every report.
ShouldAlert_always(r) == r.produced

\* if (report.hasFailures)
ShouldAlert(r) == r.hasFailures

\* runAllTests steps 7 and 8: the report, and the failure alert up to its
\* await when the report has failures.
runAllTests_report ==
  /\ pc = "generateReport"
  /\ report' = generateReport(results, now)
  /\ reports' = Append(reports, report')
  /\ IF ShouldAlert(report')
       THEN /\ StartDeliveries("sendTestFailureAlert")
            /\ pc' = "sendTestFailureAlert_await"
       ELSE /\ pc' = "completed"
            /\ UNCHANGED <<alerts, slack, discord, posts>>
  /\ UNCHANGED <<results, now, startTime, idx, calls, inflight, config,
                 exitCode, invocations, deviations>>

\* Mutant of DeliveryOutcome: the catch block throws the error again.
DeliveryOutcome_rethrows(ok) == IF ok THEN "sent" ELSE "rejected"

\* How a send function ends once its post has settled: a failed post is
\* caught and logged, and the function returns all the same.
DeliveryOutcome(ok) == IF ok THEN "sent" ELSE "failed"

\* axios.post to the Slack webhook settles; a failure is logged and swallowed.
sendSlackNotification_settle ==
  /\ slack = "posting"
  /\ \E ok \in BOOLEAN :
       /\ Afford(IF ok THEN 0 ELSE 1)
       /\ slack' = DeliveryOutcome(ok)
  /\ UNCHANGED <<pc, results, now, startTime, idx, calls, inflight, report,
                 alerts, discord, posts, config, exitCode, invocations, reports>>

\* axios.post to the Discord webhook settles.
sendDiscordNotification_settle ==
  /\ discord = "posting"
  /\ \E ok \in BOOLEAN :
       /\ Afford(IF ok THEN 0 ELSE 1)
       /\ discord' = DeliveryOutcome(ok)
  /\ UNCHANGED <<pc, results, now, startTime, idx, calls, inflight, report,
                 alerts, slack, posts, config, exitCode, invocations, reports>>

\* Promise.all resolves once both deliveries have settled, and runAllTests
\* ends; were a delivery to reject, Promise.all would reject with it and the
\* catch block of runAllTests would send the critical alert.
sendTestFailureAlert_resume ==
  /\ pc = "sendTestFailureAlert_await"
  /\ IF "rejected" \in { slack, discord }
       THEN /\ StartDeliveries("sendCriticalAlert")
            /\ pc' = "sendCriticalAlert_await"
       ELSE /\ slack # "posting"
            /\ discord # "posting"
            /\ pc' = "completed"
            /\ UNCHANGED <<alerts, slack, discord, posts>>
  /\ UNCHANGED <<results, now, startTime, idx, calls, inflight, report,
                 config, exitCode, invocations, reports, deviations>>

\* The try block's catch: an error raised after the probes, while the report
\* is made and logged, is logged and answered with the critical alert up to
\* its await; the report of the try block is out of the catch's reach.
runAllTests_fatal ==
  /\ pc = "generateReport"
  /\ Afford(1)
  /\ StartDeliveries("sendCriticalAlert")
  /\ pc' = "sendCriticalAlert_await"
  /\ UNCHANGED <<results, now, startTime, idx, calls, inflight, report, config,
                 exitCode, invocations, reports>>

\* sendCriticalAlert's Promise.all resolves once both deliveries have
\* settled; the catch block ends and runAllTests with it. Were a delivery to
\* reject, the catch block would throw and runAllTests reject.
sendCriticalAlert_resume ==
  /\ pc = "sendCriticalAlert_await"
  /\ IF "rejected" \in { slack, discord }
       THEN pc' = "rejected"
       ELSE /\ slack # "posting"
            /\ discord # "posting"
            /\ pc' = "aborted"
  /\ UNCHANGED <<results, now, startTime, idx, calls, inflight, report,
                 alerts, slack, discord, posts, config, exitCode, invocations,
                 reports, deviations>>

\* How the promise of runAllTests settles: the try block ran to its end, or
\* the catch block did, which does not throw again.
RunSettlement(end) ==
  IF end \in {"completed", "aborted"} THEN "fulfilled" ELSE "rejected"

\* Mutant of ExitCode: a report with failures makes the exit code 1.
ExitCode_failures(settlement) ==
  IF settlement = "fulfilled" /\ ~(report.produced /\ report.hasFailures)
    THEN 0 ELSE 1

\* The entry point: .then(() => process.exit(0)).catch(() => process.exit(1)).
ExitCode(settlement) == IF settlement = "fulfilled" THEN 0 ELSE 1

\* The entry point's callbacks, once the promise of runAllTests has settled.
main_exit ==
  /\ pc \in {"completed", "aborted", "rejected"}
  /\ exitCode = <<>>
  /\ exitCode' = << ExitCode(RunSettlement(pc)) >>
  /\ UNCHANGED <<pc, results, now, startTime, idx, calls, inflight, report,
                 alerts, slack, discord, posts, config, invocations, reports,
                 deviations>>

Next ==
  \/ testAPIHealth_call
  \/ testAPIHealth_resume
  \/ testSupabaseConnection_call
  \/ testSupabaseConnection_resume
  \/ testQueryCacheStrategy_call
  \/ testQueryCacheStrategy_fixture
  \/ testQueryCacheStrategy_resume
  \/ testRagVectorStrategy_call
  \/ testRagVectorStrategy_fixture
  \/ testRagVectorStrategy_resume
  \/ testAllStrategies_call
  \/ testAllStrategies_resume
  \/ testPerformance_call
  \/ testPerformance_resume
  \/ runAllTests_report
  \/ sendSlackNotification_settle
  \/ sendDiscordNotification_settle
  \/ sendTestFailureAlert_resume
  \/ runAllTests_fatal
  \/ sendCriticalAlert_resume
  \/ main_exit

Spec == Init /\ [][Next]_vars

\* A run in which whatever can run does: every awaited call returns or
\* throws in the end, and code that is ready to run is run.
SpecLive == Init /\ [][Next]_vars /\ WF_vars(Next)

\* ----------------------------------------------- the aggregator on its own
\* generateReport applied to the result list of a runner that ran no probe
\* or some: the list is drawn from short lists of passed and failed results.
SampleResults ==
  { TestResult("API Health Check", TRUE, d, NoError) : d \in Latencies }
    \cup { TestResult("Supabase Connection", FALSE, d, ErrorMsg("connection refused")) :
             d \in Latencies }

InitAggregate ==
  /\ pc = "aggregate"
  /\ results \in SeqsUpTo(SampleResults, MaxResults)
  /\ now = 0
  /\ startTime = 0
  /\ idx = 1
  /\ calls = <<>>
  /\ inflight = {}
  /\ report = [ produced |-> FALSE ]
  /\ alerts = {}
  /\ slack = "idle"
  /\ discord = "idle"
  /\ posts = <<>>
  /\ config \in { c \in RunConfigs : ~c.ENABLE_SLACK_NOTIFICATIONS
                                     /\ ~c.ENABLE_DISCORD_NOTIFICATIONS }
  /\ exitCode = <<>>
  /\ invocations = 1
  /\ reports = <<>>
  /\ deviations = 0

\* One call of generateReport.
aggregate ==
  /\ pc = "aggregate"
  /\ report' = generateReport(results, now)
  /\ reports' = Append(reports, report')
  /\ pc' = "aggregated"
  /\ UNCHANGED <<results, now, startTime, idx, calls, inflight, alerts, slack,
                 discord, posts, config, exitCode, invocations, deviations>>

\* generateReport called once more on the list it was given before, some
\* time or none after the first call.
aggregate_again ==
  /\ pc = "aggregated"
  /\ \E d \in Latencies : now' = now + d
  /\ report' = generateReport(results, now')
  /\ reports' = Append(reports, report')
  /\ pc' = "aggregated_twice"
  /\ UNCHANGED <<results, startTime, idx, calls, inflight, alerts, slack,
                 discord, posts, config, exitCode, invocations, deviations>>

NextAggregate == aggregate \/ aggregate_again

SpecAggregate == InitAggregate /\ [][NextAggregate]_vars

\* ------------------------------------------------- the facade on its own
\* The per-strategy wrappers of the facade.
Wrappers ==
  { "testQueryCache", "testRagVector", "testRagCache", "testRagHybrid",
    "testWebSearchLLM", "testCombined" }

\* A PulseAPIService nobody has called yet.
InitFacade ==
  /\ pc = "facade"
  /\ results = <<>>
  /\ now = 0
  /\ startTime = 0
  /\ idx = 1
  /\ calls = <<>>
  /\ inflight = {}
  /\ report = [ produced |-> FALSE ]
  /\ alerts = {}
  /\ slack = "idle"
  /\ discord = "idle"
  /\ posts = <<>>
  /\ config \in { c \in ConfigChoices : /\ ~c.ENABLE_SLACK_NOTIFICATIONS
                                       /\ ~c.SLACK_WEBHOOK_URL
                                       /\ ~c.ENABLE_DISCORD_NOTIFICATIONS
                                       /\ ~c.DISCORD_WEBHOOK_URL }
  /\ exitCode = <<>>
  /\ invocations = 1
  /\ reports = <<>>
  /\ deviations = 0

facadeVars == <<results, startTime, idx, deviations>>

\* healthCheck up to its await.
healthCheck_call ==
  /\ pc = "facade"
  /\ Issue(Call("", "healthCheck", "", NoRequest))
  /\ pc' = "healthCheck_await"
  /\ UNCHANGED <<now>>
  /\ UNCHANGED facadeVars
  /\ UNCHANGED notifyVars

\* healthCheck from its await on.
healthCheck_settle ==
  /\ pc = "healthCheck_await"
  /\ \E i \in inflight, http \in HealthOutcomes, d \in Latencies :
       /\ now' = now + d
       /\ Settle(i, http, healthCheck(http))
  /\ pc' = "returned"
  /\ UNCHANGED facadeVars
  /\ UNCHANGED notifyVars

\* A wrapper, and searchWithStrategy under it, up to the await.
searchWithStrategy_call ==
  /\ pc = "facade"
  /\ \E method \in Wrappers :
       Issue(Call("", method, StrategyOfMethod(method),
                  SearchRequest("restaurants near me", config.TEST_AREA,
                                config.TEST_REGION, "", "")))
  /\ pc' = "searchWithStrategy_await"
  /\ UNCHANGED <<now>>
  /\ UNCHANGED facadeVars
  /\ UNCHANGED notifyVars

\* searchWithStrategy from its await on.
searchWithStrategy_settle ==
  /\ pc = "searchWithStrategy_await"
  /\ \E i \in inflight, d \in Latencies :
     \E http \in PostOutcomes(calls[i].strategy) : \E tick \in Ticks(http) :
       /\ now' = now + d + tick
       /\ Settle(i, http, searchWithStrategy(calls[i].strategy, http, tick))
  /\ pc' = "returned"
  /\ UNCHANGED facadeVars
  /\ UNCHANGED notifyVars

NextFacade ==
  \/ healthCheck_call
  \/ healthCheck_settle
  \/ searchWithStrategy_call
  \/ searchWithStrategy_settle

SpecFacade == InitFacade /\ [][NextFacade]_vars

\* --------------------------------------- the fixture provider on its own
\* A row of the query_cache table with its creation time.
StoredRow(created_at, expire_at) ==
  [ created_at |-> created_at, prompt |-> "restaurants near me",
    area |-> "tampa-bay", region |-> "FL", country |-> "US",
    timeline |-> "today", dataLen |-> 1, expire_at |-> expire_at ]

\* The tables a query issued at time t can meet: rows created at different
\* times, each expired just before t, expiring exactly at t, or later.
TablesAt(t) ==
  { T \in SUBSET { StoredRow(0 - c, e) : c \in 1..(MaxFixtures + 1),
                                         e \in { t - 1, t, t + 1 } } :
      \A a, b \in T : a.created_at = b.created_at => a = b }

RECURSIVE Descending(_)
\* .order('created_at', { ascending: false })
Descending(T) ==
  IF T = {} THEN <<>>
  ELSE LET newest == CHOOSE r \in T : \A q \in T : q.created_at <= r.created_at
       IN << newest >> \o Descending(T \ { newest })

\* .gte('expire_at', <t>).order('created_at', { ascending: false })
\* .limit(limit), as the store evaluates it.
Select(T, t, limit) ==
  LET rows == Descending({ r \in T : r.expire_at >= t })
  IN SubSeq(rows, 1, Min(limit, Len(rows)))

\* getRecentCacheEntry() up to its await.
getRecentCacheEntry_call ==
  /\ pc = "facade"
  /\ Issue(Call("", "getRecentCacheEntry", "", NoRequest))
  /\ pc' = "getRecentCacheEntry_await"
  /\ UNCHANGED <<now>>
  /\ UNCHANGED facadeVars
  /\ UNCHANGED notifyVars

\* getRecentCacheEntry() from its await on.
getRecentCacheEntry_settle ==
  /\ pc = "getRecentCacheEntry_await"
  /\ \E i \in inflight, d \in Latencies :
     \E T \in TablesAt(calls[i].at) :
     \E error \in { NoError, ErrorMsg("connection refused") } :
       /\ error.defined => T = {}
       /\ now' = now + d
       /\ LET db == DbResult(Select(T, calls[i].at, 1), error)
          IN Settle(i, [ table |-> T, db |-> db ], getRecentCacheEntry(db))
  /\ pc' = "returned"
  /\ UNCHANGED facadeVars
  /\ UNCHANGED notifyVars

\* getCacheEntriesByPrompt('', 5) up to its await.
getCacheEntriesByPrompt_call ==
  /\ pc = "facade"
  /\ Issue(Call("", "getCacheEntriesByPrompt", "", NoRequest))
  /\ pc' = "getCacheEntriesByPrompt_await"
  /\ UNCHANGED <<now>>
  /\ UNCHANGED facadeVars
  /\ UNCHANGED notifyVars

\* getCacheEntriesByPrompt('', 5) from its await on.
getCacheEntriesByPrompt_settle ==
  /\ pc = "getCacheEntriesByPrompt_await"
  /\ \E i \in inflight, d \in Latencies :
     \E T \in TablesAt(calls[i].at) :
     \E error \in { NoError, ErrorMsg("connection refused") } :
       /\ error.defined => T = {}
       /\ now' = now + d
       /\ LET db == DbResult(Select(T, calls[i].at, 5), error)
          IN Settle(i, [ table |-> T, db |-> db ], getCacheEntriesByPrompt(db))
  /\ pc' = "returned"
  /\ UNCHANGED facadeVars
  /\ UNCHANGED notifyVars

NextProvider ==
  \/ getRecentCacheEntry_call
  \/ getRecentCacheEntry_settle
  \/ getCacheEntriesByPrompt_call
  \/ getCacheEntriesByPrompt_settle

SpecProvider == InitFacade /\ [][NextProvider]_vars

\* ------------------------------ the end of a run under every configuration
\* The results a run holds after its six probes when every collaborator
\* answered at once and well.
NominalRunResults ==
  << TestResult("API Health Check", TRUE, 0, NoError),
     TestResult("Supabase Connection", TRUE, 0, NoError),
     TestResult("Query Cache Strategy", TRUE, 0, NoError),
     RagVectorResult(NominalPost("rag_vector").body, 0) >>
  \o [ k \in 1..Len(strategies) |->
         StrategyResult(strategies[k].name,
                        NominalPost(StrategyOfMethod(strategies[k].method)).body,
                        0) ]
  \o [ k \in 1..Len(performanceTests) |->
         PerformanceResult(performanceTests[k],
                           NominalPost(performanceTests[k].strategy).body, 0) ]

\* The same run with the health check answering 204.
UnhealthyRunResults ==
  [ NominalRunResults EXCEPT
      ![1] = TestResult("API Health Check", FALSE, 0,
                        ErrorMsg("API is not healthy")) ]

\* runAllTests after its last probe, with either result list and with every
\* combination of the two enable flags and the two webhook URLs.
InitTail ==
  /\ pc = "generateReport"
  /\ results \in { NominalRunResults, UnhealthyRunResults }
  /\ now = 0
  /\ startTime = 0
  /\ idx = 1
  /\ calls = <<>>
  /\ inflight = {}
  /\ report = [ produced |-> FALSE ]
  /\ alerts = {}
  /\ slack = "idle"
  /\ discord = "idle"
  /\ posts = <<>>
  /\ config \in ConfigChoices
  /\ exitCode = <<>>
  /\ invocations = 1
  /\ reports = <<>>
  /\ deviations = 0

NextTail ==
  \/ runAllTests_report
  \/ runAllTests_fatal
  \/ sendSlackNotification_settle
  \/ sendDiscordNotification_settle
  \/ sendTestFailureAlert_resume
  \/ sendCriticalAlert_resume
  \/ main_exit

SpecTail == InitTail /\ [][NextTail]_vars

\* ------------------------------------------- one runner, invoked once more
\* runAllTests called again on the runner whose earlier invocation is over:
\* the locals of the invocation are new, the fields of the runner (results)
\* are what the earlier invocation left.
runAllTests_again ==
  /\ pc \in {"completed", "aborted"}
  /\ exitCode = <<>>
  /\ invocations < MaxInvocations
  /\ invocations' = invocations + 1
  /\ pc' = "testAPIHealth"
  /\ report' = [ produced |-> FALSE ]
  /\ slack' = "idle"
  /\ discord' = "idle"
  /\ UNCHANGED <<results, now, startTime, idx, calls, inflight, alerts, posts,
                 config, exitCode, reports, deviations>>

NextRerun == Next \/ runAllTests_again

SpecRerun == Init /\ [][NextRerun]_vars

\* ================================================================ claims
Probes ==
  << "testAPIHealth", "testSupabaseConnection", "testQueryCacheStrategy",
     "testRagVectorStrategy", "testAllStrategies", "testPerformance" >>

\* How many results a probe records.
ResultsOf(probe) ==
  IF probe = "testAllStrategies" THEN Len(strategies)
  ELSE IF probe = "testPerformance" THEN Len(performanceTests) ELSE 1

RECURSIVE ResultsBefore(_)
\* How many results the probes before the k-th probe record.
ResultsBefore(k) ==
  IF k = 1 THEN 0 ELSE ResultsBefore(k - 1) + ResultsOf(Probes[k - 1])

\* The position of each probe in the fixed order.
Rank == [ p \in { Probes[k] : k \in 1..Len(Probes) } |->
            CHOOSE k \in 1..Len(Probes) : Probes[k] = p ]

\* Before[k]: how many results a run holds once the probes before the k-th
\* are over.
Before == [ k \in 1..(Len(Probes) + 1) |-> ResultsBefore(k) ]

CallsOf(probe) == { i \in 1..Len(calls) : calls[i].probe = probe }

HasThrown(i) == calls[i].out.settled /\ calls[i].out.threw

\* The result a probe recorded when its call i settled on an end of the probe
\* (iteration): the one after those recorded when the call was issued.
ResultAfter(i) == results[calls[i].nres + 1]

\* C1: whatever the collaborators do, a run that produces its report has run
\* all six probes, the report counts every result of every probe, and a call
\* that threw left a failed result behind (the run went on after it, and no
\* run stops before its end).
C1_ProbesAllRun ==
  /\ report.produced =>
       /\ \A k \in 1..Len(Probes) : CallsOf(Probes[k]) # {}
       /\ Len(results) = Before[Len(Probes) + 1]
       /\ report.totalTests = Len(results)
       /\ report.passedTests + report.failedTests = Len(results)
  /\ \A i \in 1..Len(calls) :
       HasThrown(i) => /\ Len(results) > calls[i].nres
                       /\ ~ResultAfter(i).success
  /\ pc \notin {"completed", "aborted"} => ENABLED Next

\* C1 witness: a completed run in which a sweep call threw.
C1_Witness ==
  /\ pc = "completed"
  /\ \E i \in CallsOf("testAllStrategies") : HasThrown(i)

\* C2: calls are issued one at a time (every call but the last has settled,
\* at most one is in flight), in the fixed probe order, each only after all
\* results of the earlier probes and of the earlier iterations of its own
\* probe were recorded.
C2_OneAtATimeInOrder ==
  /\ Cardinality(inflight) <= 1
  /\ \A i \in 1..Len(calls) :
       /\ i \in inflight <=> ~calls[i].out.settled
       /\ calls[i].nres >= Before[Rank[calls[i].probe]]
       /\ calls[i].nres < Before[Rank[calls[i].probe] + 1]
       /\ i < Len(calls) =>
            /\ calls[i].out.settled
            /\ Rank[calls[i].probe] <= Rank[calls[i + 1].probe]
            /\ calls[i].nres <= calls[i + 1].nres
            /\ (calls[i].probe = calls[i + 1].probe /\ ResultsOf(calls[i].probe) > 1)
                 => calls[i].nres < calls[i + 1].nres

\* C2 witness: the third performance call is in flight, all earlier results in.
C2_Witness ==
  /\ pc = "testPerformance_await"
  /\ idx = Len(performanceTests)
  /\ inflight # {}
  /\ Len(results) = Before[Len(Probes)] + idx - 1

\* C3: the failure alert is invoked if and only if the report of the
\* completed run holds a failed result, and without one nothing is posted to
\* Slack or Discord.
C3_AlertIffFailures ==
  LET anyFailed == \E k \in 1..Len(report.results) : ~report.results[k].success
  IN /\ "sendTestFailureAlert" \in alerts => report.produced /\ anyFailed
     /\ (posts # <<>> /\ "sendCriticalAlert" \notin alerts) =>
          report.produced /\ anyFailed
     /\ pc = "completed" =>
          /\ report.produced
          /\ anyFailed => "sendTestFailureAlert" \in alerts
          /\ ~anyFailed => posts = <<>> /\ slack = "idle" /\ discord = "idle"

\* C3 witness: a completed run whose report had failures and was posted to
\* both channels.
C3_Witness ==
  /\ pc = "completed"
  /\ report.failedTests > 0
  /\ "sendTestFailureAlert" \in alerts
  /\ posts = << "slack", "discord" >>

FacadeCalls ==
  { i \in 1..Len(calls) : calls[i].out.settled /\ calls[i].strategy # "" }

\* A well-formed normalised failure: success=false, data=[], an error string
\* that is not empty.
IsFailedResponse(v) == ~v.success /\ v.dataLen = 0 /\ Truthy(v.error)

\* C4 as stated: the facade never throws, and answers every failure of the
\* HTTP call (anything but a 2xx answer) with a well-formed failed response.
C4_Original_NeverRaises ==
  \A i \in FacadeCalls :
    /\ ~calls[i].out.threw
    /\ calls[i].out.raw.kind # "2xx" => IsFailedResponse(calls[i].out.value)

\* C4 amended: the facade answers every Axios error (no answer, timeout,
\* non-2xx status) with a well-formed failed response and does not throw;
\* an error that is not an Axios error is rethrown to the caller.
C4_AxiosErrorsNormalised ==
  \A i \in FacadeCalls :
    /\ calls[i].out.raw.kind = "axios" =>
         ~calls[i].out.threw /\ IsFailedResponse(calls[i].out.value)
    /\ calls[i].out.raw.kind = "exception" => calls[i].out.threw
    /\ calls[i].out.raw.kind = "2xx" => ~calls[i].out.threw

\* C4 witness: a facade call that timed out without an answer has settled.
C4_Witness ==
  \E i \in FacadeCalls :
    /\ calls[i].out.raw.kind = "axios"
    /\ ~calls[i].out.raw.serverError.defined
    /\ ~calls[i].out.threw

C6_EmptyRateIsZero ==
  (report.produced /\ report.totalTests = 0) =>
    /\ ~report.successRate.isNaN
    /\ report.successRate.hundredths = 0

PerformanceCalls ==
  { i \in 1..Len(calls) : calls[i].probe = "testPerformance" /\ calls[i].out.settled }

ExpectedMsOf(i) ==
  LET k == CHOOSE k \in 1..Len(performanceTests) :
             performanceTests[k].strategy = calls[i].strategy
  IN performanceTests[k].expectedMs

ReturnedFixtures ==
  { i \in 1..Len(calls) :
      /\ calls[i].probe = "testQueryCacheStrategy"
      /\ calls[i].op = "getCacheEntriesByPrompt"
      /\ calls[i].out.settled
      /\ ~calls[i].out.threw }

NoValidFixture(i) ==
  \A k \in 1..Len(calls[i].out.value) :
    ~(calls[i].out.value[k].dataLen > 0
        /\ calls[i].out.value[k].expire_at > calls[i].out.at)

\* C8: when the provider returns no entry that is unexpired and has data,
\* the primary probe records one failed result saying that no valid entry
\* was found, and never calls the facade.
C8_NoFixtureNoCall ==
  \A i \in ReturnedFixtures :
    NoValidFixture(i) =>
      /\ Len(results) > calls[i].nres
      /\ ~ResultAfter(i).success
      /\ ResultAfter(i).error = ErrorMsg("No valid cache entries found for testing")
      /\ \A j \in CallsOf("testQueryCacheStrategy") : calls[j].op # "testQueryCache"
      /\ \A j \in 1..Len(calls) : j > i => calls[j].nres > calls[i].nres
      /\ \A j \in CallsOf("testRagVectorStrategy") : calls[j].nres = calls[i].nres + 1

\* C8 witness: the provider returned rows, none of them valid (one has no
\* data), and the run went on.
C8_Witness ==
  \E i \in ReturnedFixtures :
    /\ NoValidFixture(i)
    /\ Len(calls[i].out.value) > 0
    /\ \E k \in 1..Len(calls[i].out.value) : calls[i].out.value[k].dataLen = 0
    /\ pc = "completed"

\* The sweep's calls, in the order they were issued.
SweepCalls == SelectSeq(calls, LAMBDA c : c.probe = "testAllStrategies")

SweepDone == pc \notin { "testAPIHealth", "testAPIHealth_await",
                         "testSupabaseConnection", "testSupabaseConnection_await",
                         "testQueryCacheStrategy", "testQueryCacheStrategy_fixture",
                         "testQueryCacheStrategy_await", "testRagVectorStrategy",
                         "testRagVectorStrategy_fixture", "testRagVectorStrategy_await",
                         "testAllStrategies", "testAllStrategies_await" }

\* C9: the sweep calls its four strategies in list order and records one
\* result for each, named after it; a call that throws gives a failed
\* result, every other result has the success of the facade's response, and
\* the strategies after a throwing one are still called.
C9_SweepOnePerStrategy ==
  /\ Len(SweepCalls) <= Len(strategies)
  /\ SweepDone => Len(SweepCalls) = Len(strategies)
  /\ \A k \in 1..Len(SweepCalls) :
       LET c == SweepCalls[k]
       IN /\ c.op = strategies[k].method
          /\ c.nres = SweepCalls[1].nres + k - 1
          /\ c.out.settled =>
               /\ Len(results) > c.nres
               /\ results[c.nres + 1].testName = strategies[k].name \o " Strategy"
               /\ c.out.threw => ~results[c.nres + 1].success
               /\ ~c.out.threw =>
                    results[c.nres + 1].success = c.out.value.success

\* C9 witness: the sweep is over, its second call threw and its last call
\* returned success=true.
C9_Witness ==
  /\ SweepDone
  /\ Len(SweepCalls) = Len(strategies)
  /\ SweepCalls[2].out.threw
  /\ ~SweepCalls[Len(strategies)].out.threw
  /\ SweepCalls[Len(strategies)].out.value.success

\* C10: whenever the facade answers the secondary probe with success=true
\* and an empty data list, the probe records a failed result.
C10_EmptyDataFails ==
  \A i \in 1..Len(calls) :
    ( /\ calls[i].op = "testRagVector"
      /\ calls[i].out.settled
      /\ ~calls[i].out.threw
      /\ calls[i].out.value.success
      /\ calls[i].out.value.dataLen = 0 ) => ~ResultAfter(i).success

\* ------------------------------------------------- the end of the process
\* C11 as stated: a run that ended in the catch block of runAllTests (the
\* aborted run) makes the process exit with a code other than 0.
C11_AbortedExitsNonZero ==
  (pc = "aborted" /\ exitCode # <<>>) => exitCode[1] # 0

\* C12: a run that ran its try block to the end exits with code 0, whatever
\* number of its results failed, and nothing else is left for it to do.
C12_CompletedExitsZero ==
  pc = "completed" =>
    /\ exitCode \in { <<>>, << 0 >> }
    /\ exitCode = <<>> => ENABLED main_exit
    /\ report.produced /\ report.failedTests \in 0..Len(results)

\* C12 witness: the process has exited with 0 after a run with a failed
\* result.
C12_Witness ==
  /\ pc = "completed"
  /\ exitCode = << 0 >>
  /\ report.failedTests > 0

\* C13 as stated: every run that ended, aborted or not, has produced and
\* logged a report of the results recorded so far, and the aborted run has
\* sent the critical alert on top of it.
C13_EveryRunReports ==
  pc \in {"completed", "aborted"} =>
    /\ report.produced
    /\ report.results = results
    /\ pc = "aborted" => "sendCriticalAlert" \in alerts

\* ---------------------------------------------------- the two alert calls
Posted == { posts[k] : k \in 1..Len(posts) }

AlertAwaited == pc \in {"sendTestFailureAlert_await", "sendCriticalAlert_await"}

\* C14 as stated: the critical alert of an aborted run is posted to every
\* channel that has a webhook URL, whether the channel's enable flag is set
\* or not.
C14_CriticalIgnoresFlags ==
  "sendCriticalAlert" \in alerts =>
    /\ config.SLACK_WEBHOOK_URL => "slack" \in Posted
    /\ config.DISCORD_WEBHOOK_URL => "discord" \in Posted

\* C15: from the alert call on, each channel that is enabled and has a URL
\* has its post issued, whatever became of the other one (both are started
\* before the call awaits anything); the call resolves only when neither post
\* is pending any more, and once both have settled, sent or failed, it can
\* resolve: a failed post is never passed on to the caller.
C15_BothDeliveriesSettle ==
  /\ alerts # {} =>
       /\ slack # "idle" /\ discord # "idle"
       /\ SlackStarts <=> "slack" \in Posted
       /\ DiscordStarts <=> "discord" \in Posted
       /\ SlackStarts <=> slack \in {"posting", "sent", "failed"}
       /\ DiscordStarts <=> discord \in {"posting", "sent", "failed"}
  /\ (alerts # {} /\ ~AlertAwaited) =>
       /\ pc \in {"completed", "aborted"}
       /\ slack # "posting" /\ discord # "posting"
  /\ (AlertAwaited /\ slack # "posting" /\ discord # "posting") =>
       ENABLED (sendTestFailureAlert_resume \/ sendCriticalAlert_resume)

\* C15 witness: the failure alert has resolved although the post to Slack
\* failed, and the post to Discord was sent.
C15_Witness ==
  /\ pc = "completed"
  /\ "sendTestFailureAlert" \in alerts
  /\ slack = "failed"
  /\ discord = "sent"

\* --------------------------------------------------------- the result list
\* C16 as stated: the report of an invocation of runAllTests holds the
\* results of that invocation only (as many as its probes record), also when
\* the runner was used for an earlier invocation.
C16_ReportOfThisRunOnly ==
  \A k \in 1..Len(reports) :
    /\ reports[k].totalTests = Before[Len(Probes) + 1]
    /\ Len(reports[k].results) = Before[Len(Probes) + 1]
    /\ reports[k].passedTests + reports[k].failedTests
         = Before[Len(Probes) + 1]

\* C17 as stated: no two results of a run have the same testName.
C17_UniqueTestNames ==
  \A i, j \in 1..Len(results) :
    i # j => results[i].testName # results[j].testName

\* C18 as stated: a result has an error exactly when it is a failed one (no
\* failed result lacks an error, no passed result carries one).
C18_ErrorIffFailed ==
  \A k \in 1..Len(results) : results[k].error.defined <=> ~results[k].success

\* The values of pc inside a probe.
PositionsOf(probe) == { probe, probe \o "_fixture", probe \o "_await" }

\* C19 as stated: a run that ran its try block to the end holds exactly 10
\* results.
C19_TenResults == pc = "completed" => Len(results) = 10

\* C19: the result list changes by one result appended at a time; while the
\* k-th probe runs the list holds the results of the probes before it and
\* of the loop iterations done so far (one result per single-result probe
\* whatever its call did, four for the sweep, three for the performance
\* probe), and from the end of the last probe on it holds exactly 11.
C19_AppendOnlyElevenResults ==
  /\ [](\A k \in 1..Len(Probes) :
          pc \in PositionsOf(Probes[k]) =>
            /\ Len(results) = Before[k] + idx - 1
            /\ idx <= ResultsOf(Probes[k]))
  /\ []((\A k \in 1..Len(Probes) : pc \notin PositionsOf(Probes[k])) =>
          Len(results) = 11)
  /\ [][results' # results =>
          /\ Len(results') = Len(results) + 1
          /\ SubSeq(results', 1, Len(results)) = results]_vars

\* C19 witness: a run over with 11 results although the call of a
\* single-result probe threw or ended in a failed result.
C19_Witness ==
  /\ pc = "completed"
  /\ Len(results) = 11
  /\ \E i \in CallsOf("testQueryCacheStrategy") \cup CallsOf("testAPIHealth")
               \cup CallsOf("testRagVectorStrategy") :
       HasThrown(i) \/ (calls[i].out.settled /\ ~ResultAfter(i).success)

ReportFields ==
  { "totalTests", "passedTests", "failedTests", "hasFailures", "successRate",
    "totalDuration", "results", "failures" }

FailedAt(rs) == { k \in 1..Len(rs) : ~rs[k].success }

\* The n-th smallest member of a set of positions.
NthOf(P, n) == CHOOSE k \in P : Cardinality({ j \in P : j < k }) = n - 1

RECURSIVE DurationOfFirst(_, _)
\* The durations of the first n results of a list, added up.
DurationOfFirst(rs, n) ==
  IF n = 0 THEN 0 ELSE DurationOfFirst(rs, n - 1) + rs[n].duration

\* C21: the report lists the results as the runner holds them (in the order
\* they were appended), its failures are the failed ones among them, each
\* once and in that same order, and its total duration is the sum of all
\* durations.
C21_ReportContents ==
  report.produced =>
    /\ report.results = results
    /\ Len(report.failures) = Cardinality(FailedAt(results))
    /\ \A n \in 1..Len(report.failures) :
         report.failures[n] = results[NthOf(FailedAt(results), n)]
    /\ report.totalDuration = DurationOfFirst(results, Len(results))

\* C21 witness: the report of a list with a passed result between two failed
\* ones that differ, and with a total duration that is not 0.
C21_Witness ==
  /\ report.produced
  /\ Len(results) = 3
  /\ FailedAt(results) = {1, 3}
  /\ results[1] # results[3]
  /\ report.totalDuration > 0

\* ------------------------------------------------------------ the facade
HealthCalls ==
  { i \in 1..Len(calls) : calls[i].out.settled /\ calls[i].op = "healthCheck" }

\* C22 as stated: healthCheck never throws, and answers true exactly when
\* GET /health was answered with a 2xx status.
C22_TrueOnEvery2xx ==
  \A i \in HealthCalls :
    /\ ~calls[i].out.threw
    /\ calls[i].out.value <=> calls[i].out.raw.kind = "2xx"

\* C22 amended: healthCheck never throws, and answers true exactly when GET
\* /health was answered with status 200: false for any other 2xx status, for
\* a non-2xx status and for every error of the request.
C22_TrueOn200Only ==
  \A i \in HealthCalls :
    /\ ~calls[i].out.threw
    /\ calls[i].out.value \in BOOLEAN
    /\ calls[i].out.value <=>
         (calls[i].out.raw.kind = "2xx" /\ calls[i].out.raw.status = 200)

\* C22 witness: healthCheck has answered false to an exception that is not
\* an Axios error.
C22_Witness ==
  \E i \in HealthCalls :
    /\ calls[i].out.raw.kind = "exception"
    /\ ~calls[i].out.threw
    /\ calls[i].out.value = FALSE

\* C23 as stated: every response the facade returns with success=false
\* carries an error string, a 2xx body with success=false included, and
\* every response it returns with success=true has a data list.
C23_WellFormedResponses ==
  \A i \in FacadeCalls :
    ~calls[i].out.threw =>
      /\ ~calls[i].out.value.success => Truthy(calls[i].out.value.error)
      /\ calls[i].out.value.success => calls[i].out.value.dataLen # NoData

\* C25 as stated: the response the facade makes of an Axios error names the
\* requested strategy as source and as strategy, has total_ms exactly 0
\* whatever the clock does, and carries the server's error when the answer
\* has one and the message of the Axios error otherwise.
C25_NormalisedFailureFields ==
  \A i \in FacadeCalls :
    calls[i].out.raw.kind = "axios" =>
      /\ calls[i].out.value.source = calls[i].strategy
      /\ calls[i].out.value.strategy = calls[i].strategy
      /\ calls[i].out.value.total_ms = 0
      /\ calls[i].out.value.error =
           IF Truthy(calls[i].out.raw.serverError)
             THEN calls[i].out.raw.serverError
             ELSE ErrorMsg(calls[i].out.raw.message)

\* --------------------------------------------------- the fixture provider
\* The rows a settled provider call returned.
ReturnedRows(i) ==
  IF calls[i].out.threw THEN <<>>
  ELSE IF calls[i].op = "getRecentCacheEntry"
    THEN IF calls[i].out.value.isNull THEN <<>>
         ELSE << calls[i].out.value.row >>
    ELSE calls[i].out.value

ProviderCalls ==
  { i \in 1..Len(calls) :
      /\ calls[i].out.settled
      /\ calls[i].op \in {"getRecentCacheEntry", "getCacheEntriesByPrompt"} }

\* C24 as stated: every row the provider returns expires strictly after the
\* time of the query (a row expiring at that very time is left out), the
\* rows come newest first, and no newer row of the table that expires
\* strictly later than the query time is passed over.
C24_StrictlyUnexpiredNewestFirst ==
  \A i \in ProviderCalls :
    LET rows == ReturnedRows(i)
    IN /\ \A k \in 1..Len(rows) : rows[k].expire_at > calls[i].at
       /\ \A k \in 1..(Len(rows) - 1) :
            rows[k].created_at > rows[k + 1].created_at
       /\ \A k \in 1..Len(rows) : \A q \in calls[i].out.raw.table :
            (q.expire_at > calls[i].at /\ q.created_at > rows[k].created_at)
              => \E j \in 1..k : rows[j] = q

\* ------------------------------------------------- the performance probe
\* Values the timing block of a response body can report.
BodyTimings == { 0, 42, QueryCacheExpectedMs + 1, RagVectorExpectedMs + 1 }

\* The entry of performanceTests a performance call belongs to.
TestOf(i) ==
  CHOOSE t \in { performanceTests[k] : k \in 1..Len(performanceTests) } :
    t.strategy = calls[i].strategy

\* C26: the result of a performance call that returned records the duration
\* the runner measured around the call and passes exactly when the response
\* has success=true and that duration is within the SLA; whatever timing the
\* body of the response reports instead, the result is the same.
C26_BodyTimingIgnored ==
  \A i \in PerformanceCalls :
    ~calls[i].out.threw =>
      LET took == calls[i].out.at - calls[i].at
          res == ResultAfter(i)
      IN /\ res.duration = took
         /\ res.success <=>
              (calls[i].out.value.success /\ took <= TestOf(i).expectedMs)
         /\ \A ms \in BodyTimings :
              PerformanceResult(TestOf(i),
                                [ calls[i].out.value EXCEPT !.total_ms = ms ],
                                took) = res

\* C26 witness: a performance call whose response reports 42 ms has failed
\* for the 501 ms the runner measured.
C26_Witness ==
  \E i \in PerformanceCalls :
    /\ ~calls[i].out.threw
    /\ calls[i].out.value.success
    /\ calls[i].out.value.total_ms = 42
    /\ calls[i].out.at - calls[i].at = QueryCacheExpectedMs + 1
    /\ ~ResultAfter(i).success

\* ------------------------------------------------------------ termination
Terminal == pc \in {"completed", "aborted"}

\* How far a run has come: the probe it is in and the loop iteration, then
\* the report, the alert, the end.
Progress(at, k) ==
  IF \E n \in 1..Len(Probes) : at \in PositionsOf(Probes[n])
    THEN 10 * (CHOOSE n \in 1..Len(Probes) : at \in PositionsOf(Probes[n])) + k
  ELSE IF at = "generateReport" THEN 100
  ELSE IF at \in {"sendTestFailureAlert_await", "sendCriticalAlert_await"} THEN 110
  ELSE 120

\* How many I/O calls a probe issues at most: the two fixture-driven probes
\* one query and one facade call, the loops one call per iteration.
CallsAtMost(probe) ==
  IF probe \in {"testQueryCacheStrategy", "testRagVectorStrategy"} THEN 2
  ELSE ResultsOf(probe)

\* C27: when every awaited call returns or throws, a run reaches the end of
\* its try block (completed: every probe ran, the report was made) or of its
\* catch block (aborted: the critical alert was sent) and stays there; it
\* never goes back to an earlier probe or iteration, and no probe issues
\* more calls than one run through its code does (nothing is retried).
C27_ReachesOneTerminalState ==
  /\ <>Terminal
  /\ [][Terminal => pc' = pc]_vars
  /\ [][Progress(pc', idx') >= Progress(pc, idx)]_vars
  /\ [](\A k \in 1..Len(Probes) :
          Cardinality(CallsOf(Probes[k])) <= CallsAtMost(Probes[k]))
  /\ [](pc = "completed" =>
          /\ report.produced
          /\ \A k \in 1..Len(Probes) : CallsOf(Probes[k]) # {})
  /\ [](pc = "aborted" => "sendCriticalAlert" \in alerts /\ ~report.produced)

\* C27 witness: a run has ended in its catch block after every probe issued
\* all its calls.
C27_Witness ==
  /\ pc = "aborted"
  /\ \A k \in 1..Len(Probes) :
       Cardinality(CallsOf(Probes[k])) = CallsAtMost(Probes[k])

\* ------------------------------------------------ the rag_vector probe
\* The fixture query of the rag_vector probe, once settled.
RagFixtureCalls ==
  { i \in CallsOf("testRagVectorStrategy") :
      calls[i].op = "getRecentCacheEntry" /\ calls[i].out.settled }

RagFacadeCalls ==
  { j \in CallsOf("testRagVectorStrategy") : calls[j].op = "testRagVector" }

\* The request the rag_vector probe sends when it has no fixture.
DefaultRagRequest ==
  SearchRequest("pizza deals today", config.TEST_AREA, config.TEST_REGION,
                config.TEST_COUNTRY, config.TEST_TIMELINE)

C30_PostsOnlyWhenEnabled ==
  LET slackOn == config.ENABLE_SLACK_NOTIFICATIONS /\ config.SLACK_WEBHOOK_URL
      discordOn == config.ENABLE_DISCORD_NOTIFICATIONS /\ config.DISCORD_WEBHOOK_URL
  IN /\ "slack" \in Posted => slackOn
     /\ "discord" \in Posted => discordOn
     /\ ~slackOn => slack \in {"idle", "skipped"}
     /\ ~discordOn => discord \in {"idle", "skipped"}
     /\ alerts # {} =>
          /\ slackOn => "slack" \in Posted
          /\ discordOn => "discord" \in Posted
     /\ Len(posts) <= 2

\* C30 witness: an alert was posted to Discord, and not to Slack, which has
\* its URL set but is not enabled.
C30_Witness ==
  /\ alerts # {}
  /\ config.SLACK_WEBHOOK_URL
  /\ ~config.ENABLE_SLACK_NOTIFICATIONS
  /\ posts = << "discord" >>
  /\ discord = "sent"
  /\ slack = "skipped"

====
